---- MODULE Spec2Model ----
(***************************************************************************)
(* Model of gpx-anonymizer.py: process_gpx_with_stats and the geometric    *)
(* predicates it uses.                                                     *)
(*                                                                         *)
(* Coordinates are whole grid steps of about one metre of arc next to      *)
(* (0,0): one step is 1/111111 degree, the factor of lines 59-60, and the  *)
(* cosine of the centre latitude is 1 there.  haversine returns the        *)
(* distance truncated to whole metres.  Halved quantities (line 56) are    *)
(* kept doubled so that the comparisons of lines 42 and 65 stay exact.     *)
(*                                                                         *)
(* A document is a sequence of <trk>, a <trk> a sequence of <trkseg>, a    *)
(* <trkseg> a sequence of <trkpt>.  An element that was parsed carries an  *)
(* id <<track, segment, position>>: the identity of the Element object.    *)
(***************************************************************************)
EXTENDS Integers, Sequences, FiniteSets, TLC

\* Bound of the explored input files: the number of <trk>, <trkseg> and <trkpt>
\* elements of the document.
MaxElements == 6

\* --max-stray-length default (argparse, line 238).
DefaultMaxStrayLength == 10

VARIABLES
    file,                  \* the GPX document given to the first run
    pc,                    \* position in process_gpx_with_stats
    run,                   \* 1: first invocation, 2: invocation on its own output
    rects, circles,        \* manual_rects, manual_circles
    max_stray_length, remove_stray, max_stray_vicinity,
    parsed,                \* the tree as ET.parse returned it
    root,                  \* the tree, rewritten in place
    trk_i,                 \* index of the next <trk> of the first pass
    total_points_removed, rect_removed_counts, circle_removed_counts,
    new_segments,
    global_stray_indices, stray_rect, stray_circle,
    final_segments,
    written, output        \* output_file: whether it was written, and its document

vars == <<file, pc, run, rects, circles, max_stray_length, remove_stray,
          max_stray_vicinity, parsed, root, trk_i, total_points_removed,
          rect_removed_counts, circle_removed_counts, new_segments,
          global_stray_indices, stray_rect, stray_circle, final_segments,
          written, output>>

argVars == <<rects, circles, max_stray_length, remove_stray, max_stray_vicinity>>
pass1Vars == <<total_points_removed, rect_removed_counts, circle_removed_counts,
               new_segments>>
pass2Vars == <<global_stray_indices, stray_rect, stray_circle>>

----------------------------------------------------------------------------
\* Input domains.

\* Attributes of a <trkpt>: three positions on the meridian lon = 0, and two
\* points that lack a coordinate.
TrkptMenu ==
    { [lat |-> 0, lon |-> 0], [lat |-> 10, lon |-> 0], [lat |-> 15, lon |-> 0],
      [lon |-> 0], [lat |-> 0] }

\* --rect lat1 lon1 lat2 lon2 (corners in any order), --circle lat lon radius.
RectsMenu == { <<>>, << <<15, 1, 15, -1>> >>, << <<10, 2, 15, 0>>, <<15, 1, 15, -1>> >> }
CirclesMenu == { <<>>, << <<20, 0, 5>> >> }

\* --max-stray-vicinity: <<>> is None.
VicinityMenu == { <<>>, <<10>> }

----------------------------------------------------------------------------
\* Arithmetic helpers.

Abs(x) == IF x < 0 THEN -x ELSE x
Min(a, b) == IF a <= b THEN a ELSE b
Max(a, b) == IF a >= b THEN a ELSE b

\* floor of the square root of a^2 + b^2
Hypot(a, b) ==
    CHOOSE r \in 0..(Abs(a) + Abs(b)) :
        r * r <= a * a + b * b /\ (r + 1) * (r + 1) > a * a + b * b

----------------------------------------------------------------------------
\* Geometric predicates.

haversine(lat1, lon1, lat2, lon2) == Hypot(lat2 - lat1, lon2 - lon1)

point_in_rect(lat, lon, rect) ==
    LET min_lat == Min(rect[1], rect[3])
        max_lat == Max(rect[1], rect[3])
        min_lon == Min(rect[2], rect[4])
        max_lon == Max(rect[2], rect[4])
    IN  (min_lat <= lat /\ lat <= max_lat) /\ (min_lon <= lon /\ lon <= max_lon)

\* Variant: the boundary of the circle is left out.
point_in_circle_open(lat, lon, circle) ==
    haversine(lat, lon, circle[1], circle[2]) < circle[3]

point_in_circle(lat, lon, circle) ==
    haversine(lat, lon, circle[1], circle[2]) <= circle[3]

point_in_circle_vicinity(lat, lon, circle, global_vicinity) ==
    LET radius == circle[3]
        effective_vicinity == IF global_vicinity # <<>> THEN global_vicinity[1] ELSE radius
    IN  haversine(lat, lon, circle[1], circle[2]) <= radius + effective_vicinity

\* The bounds are compared doubled: default_vicinity is min(width, height) / 2.
point_in_expanded_rectangle(lat, lon, rect, global_vicinity) ==
    LET min_lat == Min(rect[1], rect[3])
        max_lat == Max(rect[1], rect[3])
        min_lon == Min(rect[2], rect[4])
        max_lon == Max(rect[2], rect[4])
        \* center_lat and the mid longitude, doubled; the width and height run
        \* along a parallel and a meridian
        width == haversine(0, min_lon, 0, max_lon)
        height == haversine(min_lat, 0, max_lat, 0)
        default_vicinity2 == Min(width, height)
        effective_vicinity2 ==
            IF global_vicinity # <<>> THEN 2 * global_vicinity[1] ELSE default_vicinity2
        d_lat2 == effective_vicinity2
        d_lon2 == effective_vicinity2
    IN  (2 * min_lat - d_lat2 <= 2 * lat /\ 2 * lat <= 2 * max_lat + d_lat2)
        /\ (2 * min_lon - d_lon2 <= 2 * lon /\ 2 * lon <= 2 * max_lon + d_lon2)

----------------------------------------------------------------------------
\* The document.

HasCoords(attrib) == "lat" \in DOMAIN attrib /\ "lon" \in DOMAIN attrib

\* ET.parse: every <trkpt> becomes an element of its own.
Parse(doc) ==
    [t \in DOMAIN doc |->
        [s \in DOMAIN doc[t] |->
            [k \in DOMAIN doc[t][s] |-> [id |-> <<t, s, k>>, attrib |-> doc[t][s][k]]]]]

\* tree.write: the elements are serialised with their attributes.
Serialise(tree) ==
    [t \in DOMAIN tree |->
        [s \in DOMAIN tree[t] |->
            [k \in DOMAIN tree[t][s] |-> tree[t][s][k].attrib]]]

RECURSIVE SumLens(_)
SumLens(seqs) == IF seqs = <<>> THEN 0 ELSE Len(Head(seqs)) + SumLens(Tail(seqs))

RECURSIVE Flatten(_)
Flatten(seqs) == IF seqs = <<>> THEN <<>> ELSE Head(seqs) \o Flatten(Tail(seqs))

NumPoints(doc) == SumLens(Flatten(doc))

NumElements(doc) == Len(doc) + SumLens(doc) + NumPoints(doc)

----------------------------------------------------------------------------
\* First pass: the body of the loop over the <trkpt> of one <trkseg>.
\* st is the state of the loops: segments_from_trkseg, current_seg_points, the
\* three counters, and err once a coordinate was missing (KeyError).

RectHits(lat, lon) == { idx \in DOMAIN rects : point_in_rect(lat, lon, rects[idx]) }

CircleHits(lat, lon) == { idx \in DOMAIN circles : point_in_circle(lat, lon, circles[idx]) }

\* Variant: only the first matching region is counted.
BumpFirstOnly(counts, hits) ==
    [idx \in DOMAIN counts |->
        IF idx \in hits /\ \A other \in hits : idx <= other
        THEN counts[idx] + 1 ELSE counts[idx]]

Bump(counts, hits) ==
    [idx \in DOMAIN counts |-> IF idx \in hits THEN counts[idx] + 1 ELSE counts[idx]]

\* Variant: the point without coordinates is skipped.
KeyErrorSwallowed(st) == st

\* float(trkpt.attrib["lat"]) or ["lon"] raises KeyError, lines 106-107.
KeyError(st) == [st EXCEPT !.err = TRUE]

\* Variant: a removed point closes a run even when the run is empty.
RemovePointEmptyRun(st, trkpt) ==
    [st EXCEPT !.total_points_removed = @ + 1,
               !.segments_from_trkseg = Append(@, st.current_seg_points),
               !.current_seg_points = <<>>]

\* Variant: a removed point that follows no retained point starts the next run.
RemovePointLeaky(st, trkpt) ==
    IF st.current_seg_points # <<>>
    THEN [st EXCEPT !.total_points_removed = @ + 1,
                    !.segments_from_trkseg = Append(@, st.current_seg_points),
                    !.current_seg_points = <<>>]
    ELSE [st EXCEPT !.total_points_removed = @ + 1,
                    !.current_seg_points = <<trkpt>>]

\* Lines 117-122.
RemovePoint(st, trkpt) ==
    IF st.current_seg_points # <<>>
    THEN [st EXCEPT !.total_points_removed = @ + 1,
                    !.segments_from_trkseg = Append(@, st.current_seg_points),
                    !.current_seg_points = <<>>]
    ELSE [st EXCEPT !.total_points_removed = @ + 1]

\* Lines 123-124.
KeepPoint(st, trkpt) == [st EXCEPT !.current_seg_points = Append(@, trkpt)]

\* Lines 105-124.
ScanPoint(st, trkpt) ==
    IF st.err THEN st
    ELSE IF ~HasCoords(trkpt.attrib) THEN KeyError(st)
    ELSE
        LET lat == trkpt.attrib.lat
            lon == trkpt.attrib.lon
            rhits == RectHits(lat, lon)
            chits == CircleHits(lat, lon)
            removed == rhits # {} \/ chits # {}
            counted == [st EXCEPT !.rect_removed_counts = Bump(@, rhits),
                                  !.circle_removed_counts = Bump(@, chits)]
        IN  IF removed THEN RemovePoint(counted, trkpt) ELSE KeepPoint(counted, trkpt)

RECURSIVE ScanPoints(_, _)
ScanPoints(st, trkpts) ==
    IF trkpts = <<>> THEN st ELSE ScanPoints(ScanPoint(st, Head(trkpts)), Tail(trkpts))

\* One <trkseg>: lines 103-135.
ScanTrkseg(st, trkseg) ==
    LET begun == [st EXCEPT !.segments_from_trkseg = <<>>, !.current_seg_points = <<>>]
        scanned == ScanPoints(begun, trkseg)
        closed == IF scanned.current_seg_points # <<>>
                  THEN Append(scanned.segments_from_trkseg, scanned.current_seg_points)
                  ELSE scanned.segments_from_trkseg
    IN  IF scanned.err THEN scanned
        ELSE [scanned EXCEPT !.new_segments = @ \o closed,
                             !.segments_from_trkseg = closed,
                             !.current_seg_points = <<>>]

RECURSIVE ScanTrksegs(_, _)
ScanTrksegs(st, trksegs) ==
    IF trksegs = <<>> THEN st ELSE ScanTrksegs(ScanTrkseg(st, Head(trksegs)), Tail(trksegs))

----------------------------------------------------------------------------
\* Second pass.

RECURSIVE PathLength(_, _)
PathLength(prev_pt, pts) ==
    IF pts = <<>> THEN 0
    ELSE haversine(prev_pt.attrib.lat, prev_pt.attrib.lon,
                   Head(pts).attrib.lat, Head(pts).attrib.lon)
         + PathLength(Head(pts), Tail(pts))

SegLength(pts) == IF Len(pts) < 2 THEN 0 ELSE PathLength(pts[1], Tail(pts))

\* The inner loops of lines 167-173 and 176-182: TRUE when the break is taken.
RECURSIVE RectScan(_, _)
RectScan(pts, rect) ==
    IF pts = <<>> THEN FALSE
    ELSE IF point_in_expanded_rectangle(Head(pts).attrib.lat, Head(pts).attrib.lon,
                                        rect, max_stray_vicinity)
         THEN TRUE
         ELSE RectScan(Tail(pts), rect)

RECURSIVE CircleScan(_, _)
CircleScan(pts, circle) ==
    IF pts = <<>> THEN FALSE
    ELSE IF point_in_circle_vicinity(Head(pts).attrib.lat, Head(pts).attrib.lon,
                                     circle, max_stray_vicinity)
         THEN TRUE
         ELSE CircleScan(Tail(pts), circle)

\* Variant: a segment as long as the threshold is not eligible.
EligibleLengthBelow(seg_length) == seg_length < max_stray_length

\* Line 164.
EligibleLength(seg_length) == seg_length <= max_stray_length

\* The body of the loop over new_segments, lines 150-182.
ClassifySeg(st, seg_idx, pts) ==
    LET seg_length == SegLength(pts)
        rflag == { i \in DOMAIN rects : RectScan(pts, rects[i]) }
        cflag == { i \in DOMAIN circles : CircleScan(pts, circles[i]) }
    IN  IF EligibleLength(seg_length)
        THEN [stray_rect |->
                 [i \in DOMAIN st.stray_rect |->
                     IF i \in rflag THEN Append(st.stray_rect[i], seg_length)
                     ELSE st.stray_rect[i]],
              stray_circle |->
                 [i \in DOMAIN st.stray_circle |->
                     IF i \in cflag THEN Append(st.stray_circle[i], seg_length)
                     ELSE st.stray_circle[i]],
              global_stray_indices |->
                 IF rflag # {} \/ cflag # {}
                 THEN st.global_stray_indices \cup {seg_idx}
                 ELSE st.global_stray_indices]
        ELSE st

RECURSIVE ClassifyFrom(_, _)
ClassifyFrom(st, seg_idx) ==
    IF seg_idx > Len(new_segments) THEN st
    ELSE ClassifyFrom(ClassifySeg(st, seg_idx, new_segments[seg_idx]), seg_idx + 1)

----------------------------------------------------------------------------
\* Third pass and rebuild.

RECURSIVE KeepFrom(_, _, _)
KeepFrom(segs, idx, stray) ==
    IF idx > Len(segs) THEN <<>>
    ELSE (IF idx \notin stray THEN <<segs[idx]>> ELSE <<>>) \o KeepFrom(segs, idx + 1, stray)

\* Variant: stray segments are dropped whatever remove_stray says.
FinalSegmentsAlways(segs, stray) == KeepFrom(segs, 1, stray)

FinalSegments(segs, stray) == IF remove_stray THEN KeepFrom(segs, 1, stray) ELSE segs

\* Lines 210-214 for one <trk>: its <trkseg> children go, final_segments come.
IsTrkseg(child) == TRUE

RebuildTrk(trk, segs) == SelectSeq(trk, LAMBDA child : ~IsTrkseg(child)) \o segs

----------------------------------------------------------------------------
\* Actions.

NoArgs ==
    /\ rects = <<>> /\ circles = <<>> /\ max_stray_length = DefaultMaxStrayLength
    /\ remove_stray = FALSE /\ max_stray_vicinity = <<>>

Fresh(doc) ==
    /\ parsed' = Parse(doc)
    /\ root' = Parse(doc)
    /\ trk_i' = 1
    /\ total_points_removed' = 0
    /\ rect_removed_counts' = [i \in DOMAIN rects' |-> 0]
    /\ circle_removed_counts' = [i \in DOMAIN circles' |-> 0]
    /\ new_segments' = <<>>
    /\ global_stray_indices' = {}
    /\ stray_rect' = [i \in DOMAIN rects' |-> <<>>]
    /\ stray_circle' = [i \in DOMAIN circles' |-> <<>>]
    /\ final_segments' = <<>>

Init ==
    /\ file = <<>> /\ pc = "file" /\ run = 1
    /\ NoArgs
    /\ parsed = <<>> /\ root = <<>> /\ trk_i = 1
    /\ total_points_removed = 0
    /\ rect_removed_counts = <<>> /\ circle_removed_counts = <<>>
    /\ new_segments = <<>>
    /\ global_stray_indices = {} /\ stray_rect = <<>> /\ stray_circle = <<>>
    /\ final_segments = <<>>
    /\ written = FALSE /\ output = <<>>

procVars == <<parsed, root, trk_i, total_points_removed, rect_removed_counts,
              circle_removed_counts, new_segments, global_stray_indices, stray_rect,
              stray_circle, final_segments>>

\* The input file gets one more <trk>, <trkseg> or <trkpt> at its end.
AddTrk ==
    /\ pc = "file" /\ NumElements(file) < MaxElements
    /\ file' = Append(file, <<>>)
    /\ UNCHANGED <<pc, run, argVars, procVars, written, output>>

AddTrkseg ==
    /\ pc = "file" /\ file # <<>> /\ NumElements(file) < MaxElements
    /\ file' = [file EXCEPT ![Len(file)] = Append(@, <<>>)]
    /\ UNCHANGED <<pc, run, argVars, procVars, written, output>>

AddTrkpt ==
    /\ pc = "file" /\ file # <<>> /\ file[Len(file)] # <<>>
    /\ NumElements(file) < MaxElements
    /\ \E attrib \in TrkptMenu :
          file' = [file EXCEPT ![Len(file)][Len(file[Len(file)])] = Append(@, attrib)]
    /\ UNCHANGED <<pc, run, argVars, procVars, written, output>>

\* main: the arguments, then lines 84-98.
Main ==
    /\ pc = "file"
    /\ rects' \in RectsMenu
    /\ circles' \in CirclesMenu
    /\ max_stray_length' = DefaultMaxStrayLength
    /\ remove_stray' \in BOOLEAN
    /\ max_stray_vicinity' \in VicinityMenu
    /\ Fresh(file)
    /\ pc' = "pass1"
    /\ UNCHANGED <<file, run, written, output>>

\* One iteration of the loop of line 101.
FirstPassTrk ==
    /\ pc = "pass1" /\ trk_i <= Len(root)
    /\ LET st0 == [segments_from_trkseg |-> <<>>, current_seg_points |-> <<>>,
                   total_points_removed |-> total_points_removed,
                   rect_removed_counts |-> rect_removed_counts,
                   circle_removed_counts |-> circle_removed_counts,
                   new_segments |-> new_segments, err |-> FALSE]
           st == ScanTrksegs(st0, root[trk_i])
       IN  IF st.err
           THEN /\ pc' = "error"
                /\ UNCHANGED <<root, trk_i, pass1Vars>>
           ELSE /\ pc' = pc
                /\ root' = [root EXCEPT ![trk_i] = <<>>]
                /\ trk_i' = trk_i + 1
                /\ total_points_removed' = st.total_points_removed
                /\ rect_removed_counts' = st.rect_removed_counts
                /\ circle_removed_counts' = st.circle_removed_counts
                /\ new_segments' = st.new_segments
    /\ UNCHANGED <<file, run, argVars, parsed, pass2Vars, final_segments, written, output>>

\* The loop of line 101 ends; lines 137-142.
FirstPassEnd ==
    /\ pc = "pass1" /\ trk_i > Len(root)
    /\ pc' = "pass2"
    /\ UNCHANGED <<file, run, argVars, procVars, written, output>>

\* Lines 144-198.
SecondPass ==
    /\ pc = "pass2"
    /\ LET st == ClassifyFrom([stray_rect |-> stray_rect, stray_circle |-> stray_circle,
                               global_stray_indices |-> global_stray_indices], 1)
       IN  /\ stray_rect' = st.stray_rect
           /\ stray_circle' = st.stray_circle
           /\ global_stray_indices' = st.global_stray_indices
    /\ pc' = "pass3"
    /\ UNCHANGED <<file, run, argVars, parsed, root, trk_i, pass1Vars, final_segments,
                   written, output>>

\* Lines 200-206.
ThirdPass ==
    /\ pc = "pass3"
    /\ final_segments' = FinalSegments(new_segments, global_stray_indices)
    /\ pc' = "rebuild"
    /\ UNCHANGED <<file, run, argVars, parsed, root, trk_i, pass1Vars, pass2Vars,
                   written, output>>

\* Lines 208-214.
Rebuild ==
    /\ pc = "rebuild"
    /\ root' = [t \in DOMAIN root |-> RebuildTrk(root[t], final_segments)]
    /\ pc' = "write"
    /\ UNCHANGED <<file, run, argVars, parsed, trk_i, pass1Vars, pass2Vars,
                   final_segments, written, output>>

\* Line 216.
Write ==
    /\ pc = "write"
    /\ output' = Serialise(root)
    /\ written' = TRUE
    /\ pc' = "done"
    /\ UNCHANGED <<file, run, argVars, procVars>>

\* The program is run again with the same arguments, its input_file being the
\* output_file of the first run.
Rerun ==
    /\ pc = "done" /\ run = 1
    /\ run' = 2
    /\ UNCHANGED argVars
    /\ Fresh(output)
    /\ written' = FALSE
    /\ pc' = "pass1"
    /\ UNCHANGED <<file, output>>

Next ==
    \/ AddTrk
    \/ AddTrkseg
    \/ AddTrkpt
    \/ Main
    \/ FirstPassTrk
    \/ FirstPassEnd
    \/ SecondPass
    \/ ThirdPass
    \/ Rebuild
    \/ Write

Spec == Init /\ [][Next]_vars

NextRerun ==
    \/ Next
    \/ Rerun

SpecRerun == Init /\ [][NextRerun]_vars

TypeOK ==
    /\ pc \in {"file", "pass1", "pass2", "pass3", "rebuild", "write", "done", "error"}
    /\ run \in {1, 2}
    /\ written \in BOOLEAN

----------------------------------------------------------------------------
\* Properties.  The regions are restated here on their own terms: a rectangle
\* as two intervals, a circle by the squared distance.

AfterFirstPass == pc \in {"pass2", "pass3", "rebuild", "write", "done"}
AfterSecondPass == pc \in {"pass3", "rebuild", "write", "done"}
AfterThirdPass == pc \in {"rebuild", "write", "done"}
AfterRebuild == pc \in {"write", "done"}

Range(f) == { f[i] : i \in DOMAIN f }

InsideRect(a, r) ==
    /\ \E x \in Range(<<r[1], r[3]>>) : \E y \in Range(<<r[1], r[3]>>) : x <= a.lat /\ a.lat <= y
    /\ \E x \in Range(<<r[2], r[4]>>) : \E y \in Range(<<r[2], r[4]>>) : x <= a.lon /\ a.lon <= y

SqDist(a, lat, lon) == (a.lat - lat) * (a.lat - lat) + (a.lon - lon) * (a.lon - lon)

\* whole metres: at most c[3] when under c[3] + 1
InsideCircle(a, c) == SqDist(a, c[1], c[2]) < (c[3] + 1) * (c[3] + 1)

InRectsOf(a) == { i \in DOMAIN rects : InsideRect(a, rects[i]) }
InCirclesOf(a) == { i \in DOMAIN circles : InsideCircle(a, circles[i]) }
Contained(a) == InRectsOf(a) # {} \/ InCirclesOf(a) # {}

\* The <trkpt> elements of a tree, and of a list of segments.
PointsOfTree(tree) ==
    UNION { UNION { Range(tree[t][s]) : s \in DOMAIN tree[t] } : t \in DOMAIN tree }

PointsOfSegs(segs) == UNION { Range(segs[i]) : i \in DOMAIN segs }

\* The segments of a list that stem from <trkseg> s of <trk> t, or from <trk> t.
FromTrkseg(segs, t, s) == SelectSeq(segs, LAMBDA seg : seg[1].id[1] = t /\ seg[1].id[2] = s)
FromTrk(segs, t) == SelectSeq(segs, LAMBDA seg : seg[1].id[1] = t)

\* C1: no point that a rectangle or circle contains (boundary included) is in a
\* segment of the first pass, in a final segment, in the rebuilt tree or in
\* the output, with remove_stray on or off.
C1_NoContainedPointKept ==
    /\ \A pt \in PointsOfSegs(new_segments) : ~Contained(pt.attrib)
    /\ \A pt \in PointsOfSegs(final_segments) : ~Contained(pt.attrib)
    /\ AfterRebuild => \A pt \in PointsOfTree(root) : ~Contained(pt.attrib)
    /\ written => \A a \in PointsOfTree(output) : ~Contained(a)

\* A run that removed a point on the boundary of a circle and wrote an output
\* that still has points.
C1_Witness ==
    /\ pc = "done" /\ written
    /\ \E pt \in PointsOfTree(parsed) :
          \E i \in DOMAIN circles :
              /\ InsideCircle(pt.attrib, circles[i])
              /\ SqDist(pt.attrib, circles[i][1], circles[i][2]) = circles[i][3] * circles[i][3]
    /\ PointsOfTree(output) # {}

\* Lexicographic order of element ids.
IdBefore(a, b) ==
    \/ a[1] < b[1]
    \/ a[1] = b[1] /\ a[2] < b[2]
    \/ a[1] = b[1] /\ a[2] = b[2] /\ a[3] < b[3]

Retained(trkseg) == SelectSeq(trkseg, LAMBDA pt : ~Contained(pt.attrib))

\* seg is a run of consecutive points of trkseg that no neighbour could extend
MaximalRun(seg, trkseg) ==
    LET i == seg[1].id[3]
        j == seg[Len(seg)].id[3]
    IN  /\ seg = SubSeq(trkseg, i, j)
        /\ \A k \in i..j : ~Contained(trkseg[k].attrib)
        /\ i = 1 \/ Contained(trkseg[i - 1].attrib)
        /\ j = Len(trkseg) \/ Contained(trkseg[j + 1].attrib)

\* C9: the segments the first pass produces from an original segment are its
\* maximal runs of consecutive retained points, in order: none is empty, put
\* together they are the retained points in their original order, and a
\* 3-point segment whose middle point alone is removed gives two segments
\* holding 2 points.
C9_MaximalRuns ==
    AfterFirstPass =>
        /\ \A i \in DOMAIN new_segments : new_segments[i] # <<>>
        /\ \A i \in DOMAIN new_segments : \A j \in DOMAIN new_segments :
              i < j => IdBefore(new_segments[i][1].id, new_segments[j][1].id)
        /\ \A t \in DOMAIN parsed : \A s \in DOMAIN parsed[t] :
              LET trkseg == parsed[t][s]
                  produced == FromTrkseg(new_segments, t, s)
              IN  /\ Flatten(produced) = Retained(trkseg)
                  /\ \A i \in DOMAIN produced : MaximalRun(produced[i], trkseg)
                  /\ Len(produced) <= (Len(trkseg) - Len(Retained(trkseg))) + 1
                  /\ (/\ Len(trkseg) = 3
                      /\ ~Contained(trkseg[1].attrib)
                      /\ Contained(trkseg[2].attrib)
                      /\ ~Contained(trkseg[3].attrib))
                     => Len(produced) = 2 /\ SumLens(produced) = 2

\* A 3-point segment lost its middle point alone.
C9_Witness ==
    /\ AfterFirstPass
    /\ \E t \in DOMAIN parsed : \E s \in DOMAIN parsed[t] :
          /\ Len(parsed[t][s]) = 3
          /\ ~Contained(parsed[t][s][1].attrib)
          /\ Contained(parsed[t][s][2].attrib)
          /\ ~Contained(parsed[t][s][3].attrib)
          /\ Len(FromTrkseg(new_segments, t, s)) = 2

RECURSIVE SumSeq(_)
SumSeq(q) == IF q = <<>> THEN 0 ELSE Head(q) + SumSeq(Tail(q))

\* C10: after the first pass a region's counter is the number of input points
\* the region contains, total_points_removed the number of input points that
\* some region contains; a counter is at most the total and the total at most
\* the sum of the counters.
C10_RemovedCounts ==
    AfterFirstPass =>
        LET pts == PointsOfTree(parsed)
        IN  /\ \A i \in DOMAIN rects :
                  rect_removed_counts[i]
                      = Cardinality({ pt \in pts : InsideRect(pt.attrib, rects[i]) })
            /\ \A i \in DOMAIN circles :
                  circle_removed_counts[i]
                      = Cardinality({ pt \in pts : InsideCircle(pt.attrib, circles[i]) })
            /\ total_points_removed = Cardinality({ pt \in pts : Contained(pt.attrib) })
            /\ \A i \in DOMAIN rects : rect_removed_counts[i] <= total_points_removed
            /\ \A i \in DOMAIN circles : circle_removed_counts[i] <= total_points_removed
            /\ total_points_removed
                  <= SumSeq(rect_removed_counts) + SumSeq(circle_removed_counts)

\* One point lies in three regions, another in one of them only.
C10_Witness ==
    /\ AfterFirstPass
    /\ \E pt \in PointsOfTree(parsed) :
          Cardinality(InRectsOf(pt.attrib)) + Cardinality(InCirclesOf(pt.attrib)) = 3
    /\ \E pt \in PointsOfTree(parsed) :
          Cardinality(InRectsOf(pt.attrib)) + Cardinality(InCirclesOf(pt.attrib)) = 1
    /\ total_points_removed = 2
    /\ SumSeq(rect_removed_counts) + SumSeq(circle_removed_counts) = 4

\* Distance in whole metres, and the length of a segment as the sum over its
\* consecutive pairs.
Metres(a, b) ==
    LET sq == SqDist(a, b.lat, b.lon)
    IN  CHOOSE d \in 0..(Abs(a.lat - b.lat) + Abs(a.lon - b.lon)) :
            d * d <= sq /\ sq < (d + 1) * (d + 1)

RECURSIVE LengthUpTo(_, _)
LengthUpTo(seg, k) ==
    IF k < 2 THEN 0 ELSE LengthUpTo(seg, k - 1) + Metres(seg[k - 1].attrib, seg[k].attrib)

LengthOf(seg) == LengthUpTo(seg, Len(seg))

\* The vicinity of a region, doubled: the override, or the circle's radius, or
\* half the smaller side of the rectangle.
Vicinity2Circle(c) == IF max_stray_vicinity = <<>> THEN 2 * c[3] ELSE 2 * max_stray_vicinity[1]

Vicinity2Rect(r) ==
    IF max_stray_vicinity = <<>>
    THEN IF Abs(r[1] - r[3]) < Abs(r[2] - r[4]) THEN Abs(r[1] - r[3]) ELSE Abs(r[2] - r[4])
    ELSE 2 * max_stray_vicinity[1]

NearRect(a, r) ==
    LET v2 == Vicinity2Rect(r)
    IN  /\ \E x \in {r[1], r[3]} : 2 * a.lat + v2 >= 2 * x
        /\ \E x \in {r[1], r[3]} : 2 * a.lat - v2 <= 2 * x
        /\ \E y \in {r[2], r[4]} : 2 * a.lon + v2 >= 2 * y
        /\ \E y \in {r[2], r[4]} : 2 * a.lon - v2 <= 2 * y

NearCircle(a, c) ==
    2 * Metres(a, [lat |-> c[1], lon |-> c[2]]) <= 2 * c[3] + Vicinity2Circle(c)

StrayForRect(seg, i) ==
    LengthOf(seg) <= max_stray_length /\ \E k \in DOMAIN seg : NearRect(seg[k].attrib, rects[i])

StrayForCircle(seg, i) ==
    LengthOf(seg) <= max_stray_length /\ \E k \in DOMAIN seg : NearCircle(seg[k].attrib, circles[i])

StrayRegions(seg) ==
    Cardinality({ i \in DOMAIN rects : StrayForRect(seg, i) })
        + Cardinality({ i \in DOMAIN circles : StrayForCircle(seg, i) })

StraySegs == { idx \in DOMAIN new_segments : StrayRegions(new_segments[idx]) > 0 }

\* How often a value occurs in a sequence.
Occurrences(q, x) == Cardinality({ k \in DOMAIN q : q[k] = x })

\* C3: after the second pass the stray-length list of a region holds, in
\* segment order, one entry for each segment that is no longer than
\* max_stray_length and has a point in the region's vicinity, and none for any
\* other segment; the global stray set holds the indices of the segments some
\* region lists.
C3_StrayClassification ==
    AfterSecondPass =>
        /\ \A i \in DOMAIN rects :
              LET strays == SelectSeq(new_segments, LAMBDA seg : StrayForRect(seg, i))
              IN  stray_rect[i] = [k \in DOMAIN strays |-> LengthOf(strays[k])]
        /\ \A i \in DOMAIN circles :
              LET strays == SelectSeq(new_segments, LAMBDA seg : StrayForCircle(seg, i))
              IN  stray_circle[i] = [k \in DOMAIN strays |-> LengthOf(strays[k])]
        /\ global_stray_indices = StraySegs

\* A segment as long as the threshold is stray for a rectangle and a circle,
\* with only one of its points in the rectangle's vicinity.
C3_Witness ==
    /\ AfterSecondPass
    /\ \E idx \in DOMAIN new_segments :
          LET seg == new_segments[idx]
          IN  /\ LengthOf(seg) = max_stray_length
              /\ idx \in global_stray_indices
              /\ \E i \in DOMAIN rects :
                    /\ Occurrences(stray_rect[i], max_stray_length) = 1
                    /\ Cardinality({ k \in DOMAIN seg : NearRect(seg[k].attrib, rects[i]) }) = 1
              /\ \E i \in DOMAIN circles : Occurrences(stray_circle[i], max_stray_length) = 1

\* A segment longer than the threshold has a point in a vicinity and is not stray.
C3_WitnessLong ==
    /\ AfterSecondPass
    /\ \E idx \in DOMAIN new_segments :
          LET seg == new_segments[idx]
          IN  /\ LengthOf(seg) > max_stray_length
              /\ \E i \in DOMAIN rects : \E k \in DOMAIN seg : NearRect(seg[k].attrib, rects[i])
              /\ idx \notin global_stray_indices

\* C4: the final segment list is the first pass's list when remove_stray is
\* off; when it is on, it is that list without the segments some region found
\* stray, each dropped once, the others in their order.
C4_FinalSegments ==
    AfterThirdPass =>
        IF remove_stray
        THEN /\ final_segments
                   = SelectSeq(new_segments, LAMBDA seg : StrayRegions(seg) = 0)
             /\ Len(final_segments) = Len(new_segments) - Cardinality(StraySegs)
        ELSE final_segments = new_segments

\* remove_stray is on, a segment that two regions found stray is dropped and
\* the segment before it stays.
C4_Witness ==
    /\ AfterThirdPass /\ remove_stray
    /\ Len(new_segments) = 2
    /\ StrayRegions(new_segments[2]) >= 2
    /\ final_segments = <<new_segments[1]>>

\* remove_stray is off and stray segments stay.
C4_WitnessOff ==
    /\ AfterThirdPass /\ ~remove_stray
    /\ StraySegs # {}
    /\ final_segments = new_segments

\* C5: a second run on the output of a run with remove_stray off, with the
\* same regions, removes no point: the total and every region's counter stay 0.
C5_SecondRunRemovesNothing ==
    (run = 2 /\ ~remove_stray) =>
        /\ total_points_removed = 0
        /\ \A i \in DOMAIN rects : rect_removed_counts[i] = 0
        /\ \A i \in DOMAIN circles : circle_removed_counts[i] = 0

\* The first run removed points and kept others, and the second run has scanned
\* what was kept.
C5_Witness ==
    /\ run = 2 /\ ~remove_stray /\ pc = "done"
    /\ NumPoints(output) > 0
    /\ NumPoints(output) < NumPoints(file)
    /\ Len(rects) + Len(circles) > 0

\* The first <trk> of a document that has a <trkpt> without lat or lon.
HasBadPoint(trk) == \E s \in DOMAIN trk : \E k \in DOMAIN trk[s] : ~HasCoords(trk[s][k])

FirstBadTrk(doc) == CHOOSE t \in DOMAIN doc : HasBadPoint(doc[t]) /\ \A u \in 1..t - 1 : ~HasBadPoint(doc[u])

\* C8: when a point of the document lacks its latitude or longitude, the run
\* never gets past the first pass of the <trk> that holds it, once there it is
\* in the error state, and the output is never written.
C8_MissingCoordinateFails ==
    (pc # "file" /\ \E t \in DOMAIN file : HasBadPoint(file[t])) =>
        /\ pc \in {"pass1", "error"}
        /\ trk_i <= FirstBadTrk(file)
        /\ ~written /\ output = <<>>
        /\ pc = "error" => trk_i = FirstBadTrk(file)

\* The run failed on a point without longitude that is the last point of the
\* second <trk>, after points with both coordinates.
C8_Witness ==
    /\ pc = "error" /\ trk_i = 2
    /\ Len(file) = 2 /\ NumPoints(file) > 1
    /\ \E s \in DOMAIN file[2] :
          /\ file[2][s] # <<>>
          /\ "lon" \notin DOMAIN file[2][s][Len(file[2][s])]
          /\ "lat" \in DOMAIN file[2][s][Len(file[2][s])]
    /\ ~HasBadPoint(file[1])

AllCoords(doc) == \A t \in DOMAIN doc : ~HasBadPoint(doc[t])

\* C2: after the rebuild each <trk> holds the final segments that stem from its
\* own original segments, in their order, and no other.
C2_PartitionByTrack ==
    AfterRebuild => \A t \in DOMAIN root : root[t] = FromTrk(final_segments, t)

\* Every segment of the document holds a point, as the segments of the data
\* model do.
NoEmptyTrkseg(doc) == \A t \in DOMAIN doc : \A s \in DOMAIN doc[t] : doc[t][s] # <<>>

\* C6: without rectangles and circles the run does not fail, removes no
\* point, finds no stray segment, and writes every <trk> with the segments and
\* points it had.  Stated for documents whose points have both coordinates
\* and whose segments hold points.
C6_NoRegionsNoOp ==
    (pc # "file" /\ rects = <<>> /\ circles = <<>> /\ AllCoords(file) /\ NoEmptyTrkseg(file)) =>
        /\ pc # "error"
        /\ total_points_removed = 0
        /\ global_stray_indices = {}
        /\ written => output = file

\* C7: the output has the tracks of the input, and a <trk> none of whose own
\* segments is among the final segments is written with no segment.
C7_TracksKeptEmptyTrackEmpty ==
    written =>
        /\ Len(output) = Len(parsed)
        /\ \A t \in DOMAIN output :
              FromTrk(final_segments, t) = <<>> => output[t] = <<>>

====
